---- MODULE Spec2Model ----
(***************************************************************************)
(* Model of scripts/index.js, the 10x10 variant (lines 1-62): the page     *)
(* script that parses ?mode_m_n from the URL, sets the image, marks the    *)
(* active mode indicator, sets the two mode links and appends the grid.    *)
(* JavaScript strings are sequences of one-character strings, so that      *)
(* split, parseInt and the template literals are computed, not assumed.    *)
(***************************************************************************)
EXTENDS Integers, Sequences, FiniteSets, TLC

VARIABLES urlInfo, mode, m, n, graphSrc, HGSelectId, LGSelectId,
          HGSelectHref, LGSelectHref, selectTable, status, effects,
          viaLink, gridRuns

vars == <<urlInfo, mode, m, n, graphSrc, HGSelectId, LGSelectId,
          HGSelectHref, LGSelectHref, selectTable, status, effects,
          viaLink, gridRuns>>

\* ------------------------------------------------------------------ bounds
\* how many times the grid loop is run on one table (SpecRegen only)
MaxRuns == 2

\* ------------------------------------------------------- program constants
\* loop bound of both grid loops and upper bound of the index check
GridSize == 10

HG == <<"H", "G">>
LG == <<"L", "G">>
ImgPrefix == <<"i", "m", "g", "/">>
PngSuffix == <<".", "p", "n", "g">>
SelectSuffix == <<"-", "s", "e", "l", "e", "c", "t">>
HGSelectInitialId == HG \o SelectSuffix
LGSelectInitialId == LG \o SelectSuffix
SelectedMode == <<"s", "e", "l", "e", "c", "t", "e", "d", "-", "m", "o", "d", "e">>
SelectedOrbital == <<"s", "e", "l", "e", "c", "t", "e", "d", "-",
                     "o", "r", "b", "i", "t", "a", "l">>
HrefPrefix == <<".", "/", "?">>
UndefinedStr == <<"u", "n", "d", "e", "f", "i", "n", "e", "d">>

\* -------------------------------------------------- JavaScript primitives
DecChars == <<"0", "1", "2", "3", "4", "5", "6", "7", "8", "9">>
HexLower == <<"0", "1", "2", "3", "4", "5", "6", "7", "8", "9",
              "a", "b", "c", "d", "e", "f">>
HexUpper == <<"0", "1", "2", "3", "4", "5", "6", "7", "8", "9",
              "A", "B", "C", "D", "E", "F">>
WhiteSpace == {" "}

\* value of character c as a digit, or -1 when it is not a hex digit
CharVal(c) ==
  IF \E k \in 1..16 : HexLower[k] = c
  THEN (CHOOSE k \in 1..16 : HexLower[k] = c) - 1
  ELSE IF \E k \in 1..16 : HexUpper[k] = c
       THEN (CHOOSE k \in 1..16 : HexUpper[k] = c) - 1
       ELSE -1

IsDigit(c, radix) == CharVal(c) >= 0 /\ CharVal(c) < radix

Drop(s, k) == SubSeq(s, k + 1, Len(s))

RECURSIVE TrimLeft(_)
TrimLeft(s) ==
  IF s # <<>> /\ Head(s) \in WhiteSpace THEN TrimLeft(Tail(s)) ELSE s

\* value of the longest prefix of radix digits of s, starting from acc
RECURSIVE DigitsValue(_, _, _)
DigitsValue(s, radix, acc) ==
  IF s # <<>> /\ IsDigit(Head(s), radix)
  THEN DigitsValue(Tail(s), radix, acc * radix + CharVal(Head(s)))
  ELSE acc

\* parseInt(string) with no radix argument: leading white space, optional
\* sign, optional 0x/0X prefix, then the longest prefix of digits; NaN when
\* that prefix is empty.  The result is [nan, val].
ParseInt(str) ==
  LET s1 == TrimLeft(str)
      neg == s1 # <<>> /\ Head(s1) = "-"
      s2 == IF s1 # <<>> /\ Head(s1) \in {"+", "-"} THEN Tail(s1) ELSE s1
      hex == Len(s2) >= 2 /\ s2[1] = "0" /\ s2[2] \in {"x", "X"}
      s3 == IF hex THEN Drop(s2, 2) ELSE s2
      radix == IF hex THEN 16 ELSE 10
  IN IF s3 = <<>> \/ ~IsDigit(Head(s3), radix)
     THEN [nan |-> TRUE, val |-> 0]
     ELSE [nan |-> FALSE,
           val |-> IF neg THEN 0 - DigitsValue(s3, radix, 0)
                   ELSE DigitsValue(s3, radix, 0)]

\* String.prototype.split with a one-character separator
RECURSIVE SplitAcc(_, _, _)
SplitAcc(s, sep, cur) ==
  IF s = <<>> THEN <<cur>>
  ELSE IF Head(s) = sep THEN <<cur>> \o SplitAcc(Tail(s), sep, <<>>)
       ELSE SplitAcc(Tail(s), sep, Append(cur, Head(s)))

Split(s, sep) == SplitAcc(s, sep, <<>>)

\* params[k] (0-based) as parseInt sees it: a missing element is undefined,
\* which parseInt converts to the string "undefined"
Param(params, k) ==
  IF k + 1 <= Len(params) THEN params[k + 1] ELSE UndefinedStr

\* ${i} for an integer i inside a template literal
RECURSIVE NatToStr(_)
NatToStr(i) ==
  IF i < 10 THEN <<DecChars[i + 1]>>
  ELSE NatToStr(i \div 10) \o <<DecChars[(i % 10) + 1]>>

IntToStr(i) == IF i < 0 THEN <<"-">> \o NatToStr(0 - i) ELSE NatToStr(i)

\* ------------------------------------------------------------- the script
Selection(md, a, b) == [mode |-> md, m |-> a, n |-> b]

\* 0 <= v && v < 10; every comparison with NaN is false
InRangeShifted(v) == ~v.nan /\ 0 < v.val /\ v.val < GridSize
InRange(v) == ~v.nan /\ 0 <= v.val /\ v.val < GridSize

\* the condition of the if: both indices in range, and mode (the variable,
\* not modeTemp) is 'HG' or 'LG'
ValidOnlyM(mTemp, nTemp, md) == InRange(mTemp) /\ (md = HG \/ md = LG)
Valid(mTemp, nTemp, md) ==
  InRange(mTemp) /\ InRange(nTemp) /\ (md = HG \/ md = LG)

\* the settings after the url block, from the settings md0, m0, n0 before it
ParseQuery(q, md0, m0, n0) ==
  IF q # <<>> /\ Len(q) > 1
  THEN LET params == Split(Drop(q, 1), "_")
           mTemp == ParseInt(Param(params, 1))
           nTemp == ParseInt(Param(params, 2))
           modeTemp == params[1]
       IN IF Valid(mTemp, nTemp, md0)
          THEN Selection(modeTemp, mTemp.val, nTemp.val)
          ELSE Selection(md0, m0, n0)
  ELSE Selection(md0, m0, n0)

\* `img/${mode}/${m}_${n}.png`
ImagePathSwapped(md, a, b) ==
  ImgPrefix \o md \o <<"/">> \o IntToStr(b) \o <<"_">> \o IntToStr(a) \o PngSuffix
ImagePath(md, a, b) ==
  ImgPrefix \o md \o <<"/">> \o IntToStr(a) \o <<"_">> \o IntToStr(b) \o PngSuffix

\* document.getElementById over the two mode indicators, in document order
GetElementById(id, hgId, lgId) ==
  IF hgId = id THEN "HGSelect" ELSE IF lgId = id THEN "LGSelect" ELSE "null"

\* `./?HG_${m}_${n}`, `./?LG_${m}_${n}` and the href of a grid cell
QueryHrefSwapped(md, a, b) ==
  HrefPrefix \o md \o <<"_">> \o IntToStr(b) \o <<"_">> \o IntToStr(a)
QueryHref(md, a, b) ==
  HrefPrefix \o md \o <<"_">> \o IntToStr(a) \o <<"_">> \o IntToStr(b)

\* mTable === m && nTable === n
IsSelectedRowOnly(mTable, nTable, a, b) == mTable = a
IsSelected(mTable, nTable, a, b) == mTable = a /\ nTable = b

\* one subshellSection: the anchor and its labels-container
Cell(md, mTable, nTable, a, b) ==
  [href |-> QueryHref(md, mTable, nTable),
   id |-> IF IsSelected(mTable, nTable, a, b) THEN SelectedOrbital ELSE <<>>,
   text |-> IntToStr(mTable) \o IntToStr(nTable),
   label |-> IntToStr(mTable) \o IntToStr(nTable)]

\* one tableRow
TableRow(md, mTable, a, b) ==
  [hue |-> mTable * 50,
   cells |-> [k \in 1..GridSize |-> Cell(md, mTable, k - 1, a, b)]]

\* the outer loop: selectTable.innerHTML += tableRow for mTable = 0..9
GridLoopOverwrite(table, md, a, b) == <<TableRow(md, GridSize - 1, a, b)>>
GridLoop(table, md, a, b) ==
  table \o [k \in 1..GridSize |-> TableRow(md, k - 1, a, b)]

\* ------------------------------------------------------------- navigation
\* the query string the browser loads for a relative href "./?..."
RECURSIVE Resolve(_)
Resolve(href) ==
  IF href = <<>> THEN <<>>
  ELSE IF Head(href) = "?" THEN href ELSE Resolve(Tail(href))

CellHrefs(table) ==
  {table[r].cells[c].href : r \in 1..Len(table), c \in 1..GridSize}

\* the hrefs the script has set on the page
EmittedLinks ==
  ({HGSelectHref, LGSelectHref} \cup CellHrefs(selectTable)) \ {<<>>}

\* ------------------------------------------------- query strings entered
ModeTokens == {HG, LG, <<"X", "X">>, <<"h", "g">>, <<>>}
IndexTokens ==
  {<<DecChars[k]>> : k \in 1..10} \cup
  {<<"1", "0">>, <<"-", "1">>, <<"3", "x">>, <<"x", "3">>, <<>>,
   <<"0", "7">>, <<"0", "x", "5">>, <<"+", "4">>, <<"-", "0">>}
Queries ==
  {<<>>, <<"?">>}
  \cup {<<"?">> \o md : md \in ModeTokens}
  \cup {<<"?">> \o md \o <<"_">> \o a : md \in ModeTokens, a \in IndexTokens}
  \cup {<<"?">> \o md \o <<"_">> \o a \o <<"_">> \o b :
          md \in ModeTokens, a \in IndexTokens, b \in IndexTokens}
  \cup {<<"?">> \o md \o <<"_", "3", "_", "7", "_">> \o a :
          md \in {HG, LG}, a \in IndexTokens}

\* ------------------------------------------------------------ state machine
\* the page as the browser hands it to the script: lines 2-13
FreshPage(q, via) ==
  /\ urlInfo = q
  /\ mode = HG
  /\ m = 0
  /\ n = 0
  /\ graphSrc = <<>>
  /\ HGSelectId = HGSelectInitialId
  /\ LGSelectId = LGSelectInitialId
  /\ HGSelectHref = <<>>
  /\ LGSelectHref = <<>>
  /\ selectTable = <<>>
  /\ status = "loading"
  /\ effects = <<>>
  /\ viaLink = via
  /\ gridRuns = 0

Init == \E q \in Queries : FreshPage(q, FALSE)

\* the whole script, lines 16-62; a null element at line 38 throws and the
\* rest of the script does not run
RunScript ==
  /\ status = "loading"
  /\ LET sel == ParseQuery(urlInfo, mode, m, n)
         el == GetElementById(sel.mode \o SelectSuffix, HGSelectId, LGSelectId)
     IN /\ mode' = sel.mode
        /\ m' = sel.m
        /\ n' = sel.n
        /\ graphSrc' = ImagePath(sel.mode, sel.m, sel.n)
        /\ IF el = "null"
           THEN /\ status' = "error"
                /\ effects' = <<"image">>
                /\ UNCHANGED <<HGSelectId, LGSelectId, HGSelectHref,
                               LGSelectHref, selectTable, gridRuns>>
           ELSE /\ HGSelectId' = IF el = "HGSelect" THEN SelectedMode ELSE HGSelectId
                /\ LGSelectId' = IF el = "LGSelect" THEN SelectedMode ELSE LGSelectId
                /\ HGSelectHref' = QueryHref(HG, sel.m, sel.n)
                /\ LGSelectHref' = QueryHref(LG, sel.m, sel.n)
                /\ selectTable' = GridLoop(selectTable, sel.mode, sel.m, sel.n)
                /\ gridRuns' = gridRuns + 1
                /\ status' = "rendered"
                /\ effects' = <<"image", "mark", "links", "grid">>
  /\ UNCHANGED <<urlInfo, viaLink>>

\* the user follows one of the links the script set: a full page load
Click ==
  /\ status # "loading"
  /\ \E href \in EmittedLinks :
       /\ urlInfo' = Resolve(href)
       /\ mode' = HG
       /\ m' = 0
       /\ n' = 0
       /\ graphSrc' = <<>>
       /\ HGSelectId' = HGSelectInitialId
       /\ LGSelectId' = LGSelectInitialId
       /\ HGSelectHref' = <<>>
       /\ LGSelectHref' = <<>>
       /\ selectTable' = <<>>
       /\ status' = "loading"
       /\ effects' = <<>>
       /\ viaLink' = TRUE
       /\ gridRuns' = 0

\* the grid loop of lines 45-62 run again on the same page
RegenerateGrid ==
  /\ status = "rendered"
  /\ gridRuns < MaxRuns
  /\ selectTable' = GridLoop(selectTable, mode, m, n)
  /\ gridRuns' = gridRuns + 1
  /\ UNCHANGED <<urlInfo, mode, m, n, graphSrc, HGSelectId, LGSelectId,
                 HGSelectHref, LGSelectHref, status, effects, viaLink>>

Next == RunScript \/ Click

Spec == Init /\ [][Next]_vars

NextRegen == RunScript \/ Click \/ RegenerateGrid

SpecRegen == Init /\ [][NextRegen]_vars

\* ------------------------------------------------------------ properties
Loaded == status # "loading"

DefaultImage == ImgPrefix \o HG \o <<"/", "0", "_", "0">> \o PngSuffix

IsDefaultState == mode = HG /\ m = 0 /\ n = 0 /\ graphSrc = DefaultImage

\* the query string ?<md>_<i>_<j> written out digit by digit
ValidQuery(md, i, j) ==
  <<"?">> \o md \o <<"_", DecChars[i + 1], "_", DecChars[j + 1]>>

\* the tokens of the current query string
UrlParams == Split(Drop(urlInfo, 1), "_")

UrlAbsent == Len(urlInfo) <= 1

\* C1: for every query string ?HG_i_j or ?LG_i_j with i, j in 0..9 the
\* settings after the script are (mode, i, j) and the image source is
\* img/<mode>/<i>_<j>.png
C1_ValidQueryStateAndImage ==
  \A md \in {HG, LG} : \A i \in 0..(GridSize - 1) : \A j \in 0..(GridSize - 1) :
    (Loaded /\ urlInfo = ValidQuery(md, i, j)) =>
      /\ mode = md /\ m = i /\ n = j
      /\ graphSrc = ImgPrefix \o md
                      \o <<"/", DecChars[i + 1], "_", DecChars[j + 1]>>
                      \o PngSuffix

C1_Witness ==
  /\ status = "rendered"
  /\ urlInfo = <<"?", "L", "G", "_", "3", "_", "7">>
  /\ graphSrc = <<"i", "m", "g", "/", "L", "G", "/", "3", "_", "7",
                  ".", "p", "n", "g">>

\* a token that is a decimal integer: an optional sign and only digits
IsDecimalToken(tok) ==
  LET body == IF tok # <<>> /\ Head(tok) \in {"+", "-"} THEN Tail(tok) ELSE tok
  IN body # <<>> /\ \A k \in 1..Len(body) : IsDigit(body[k], 10)

\* index token k is missing, not a decimal integer, or outside 0..9
IndexRejectedStrict(k) ==
  \/ k + 1 > Len(UrlParams)
  \/ ~IsDecimalToken(UrlParams[k + 1])
  \/ ~InRange(ParseInt(UrlParams[k + 1]))

\* index token k is missing, unreadable by parseInt, or parses outside 0..9
IndexRejectedParsed(k) ==
  \/ k + 1 > Len(UrlParams)
  \/ ParseInt(UrlParams[k + 1]).nan
  \/ ParseInt(UrlParams[k + 1]).val < 0
  \/ ParseInt(UrlParams[k + 1]).val > 9

C3_UnknownModeFallsBack ==
  (Loaded /\ ~UrlAbsent /\ UrlParams[1] \notin {HG, LG}) => IsDefaultState

\* C4: every page load ends fully rendered, with the four effects applied
\* in order: image, mode mark, mode links, grid
C4_PassCompletes ==
  Loaded =>
    /\ status = "rendered"
    /\ effects = <<"image", "mark", "links", "grid">>
    /\ graphSrc # <<>>
    /\ SelectedMode \in {HGSelectId, LGSelectId}
    /\ HGSelectHref # <<>> /\ LGSelectHref # <<>>
    /\ selectTable # <<>>

\* C5: after the pass exactly one mode indicator is marked selected-mode,
\* the one of the current mode, and the other keeps its id
C5_OneModeMarked ==
  Loaded =>
    \/ mode = HG /\ HGSelectId = SelectedMode /\ LGSelectId = LGSelectInitialId
    \/ mode = LG /\ LGSelectId = SelectedMode /\ HGSelectId = HGSelectInitialId

\* positions (row, col), 1-based, of the cells flagged selected-orbital
ActiveCells(table) ==
  {rc \in (1..Len(table)) \X (1..GridSize) :
     table[rc[1]].cells[rc[2]].id = SelectedOrbital}

\* C6: once the grid is built exactly one cell is flagged selected-orbital
\* and it is the cell at row m, column n
C6_OneActiveCell ==
  status = "rendered" => ActiveCells(selectTable) = {<<m + 1, n + 1>>}

C6_Witness ==
  /\ status = "rendered"
  /\ m = 3 /\ n = 7
  /\ selectTable[4].cells[8].id = SelectedOrbital
  /\ selectTable[4].cells[7].id = <<>>

\* C7: on every page load the mode links are ./?HG_<m>_<n> and ./?LG_<m>_<n>
\* for the current indices
C7_ModeLinksSet ==
  (Loaded /\ m \in 0..9 /\ n \in 0..9) =>
    /\ HGSelectHref = <<".", "/", "?", "H", "G", "_", DecChars[m + 1],
                        "_", DecChars[n + 1]>>
    /\ LGSelectHref = <<".", "/", "?", "L", "G", "_", DecChars[m + 1],
                        "_", DecChars[n + 1]>>

\* C8 as stated: a second run of the grid loop leaves the table as it was
\* after the first run
C8_Original ==
  [][(gridRuns = 1 /\ gridRuns' = 2) => selectTable' = selectTable]_vars

\* C8 amended: a further run of the grid loop appends a copy of the same ten
\* rows; the set of link targets does not change, and the flagged cells are
\* the cell (m, n) of each copy
C8_RegenerateAppendsCopy ==
  [][(gridRuns >= 1 /\ gridRuns' = gridRuns + 1) =>
       /\ Len(selectTable') = Len(selectTable) + GridSize
       /\ \A k \in 1..Len(selectTable') :
            selectTable'[k] = selectTable[((k - 1) % GridSize) + 1]
       /\ CellHrefs(selectTable') = CellHrefs(selectTable)
       /\ ActiveCells(selectTable') =
            {<<c * GridSize + m + 1, n + 1>> : c \in 0..gridRuns}]_vars

C8_Witness ==
  /\ gridRuns = 2
  /\ Len(selectTable) = 2 * GridSize
  /\ Cardinality(ActiveCells(selectTable)) = 2

\* C9: the grid is 10 rows of 10 cells in ascending order, and the cell at
\* (row, col) links to ./?<mode>_<row>_<col> for the current mode
C9_GridShape ==
  status = "rendered" =>
    /\ Len(selectTable) = 10
    /\ \A r \in 1..Len(selectTable) :
         /\ Len(selectTable[r].cells) = 10
         /\ \A c \in 1..Len(selectTable[r].cells) :
              selectTable[r].cells[c].href =
                <<".", "/", "?">> \o mode
                  \o <<"_", DecChars[r], "_", DecChars[c]>>

C9_Witness ==
  /\ status = "rendered"
  /\ mode = LG
  /\ selectTable[10].cells[1].href =
       <<".", "/", "?", "L", "G", "_", "9", "_", "0">>

\* the settings a fresh page gets from the link href
Follow(href) == ParseQuery(Resolve(href), HG, 0, 0)

AllSelections ==
  {Selection(md, i, j) :
     md \in {HG, LG}, i \in 0..(GridSize - 1), j \in 0..(GridSize - 1)}

\* C10: every link of a rendered page loads exactly the state it encodes
\* (the cell's mode, row, col; the switched mode with the same m, n); a
\* page reached through a link is rendered with a state in
\* {HG, LG} x 0..9 x 0..9; and every such state is at most two links away
C10_NavigationClosed ==
  /\ status = "rendered" =>
       /\ \A r \in 1..Len(selectTable) : \A c \in 1..GridSize :
            Follow(selectTable[r].cells[c].href) = Selection(mode, r - 1, c - 1)
       /\ Follow(HGSelectHref) = Selection(HG, m, n)
       /\ Follow(LGSelectHref) = Selection(LG, m, n)
       /\ LET oneStep == {Follow(h) : h \in EmittedLinks}
              twoSteps == {Follow(QueryHref(md, s.m, s.n)) :
                             md \in {HG, LG}, s \in oneStep}
          IN oneStep \cup twoSteps = AllSelections
  /\ (viaLink /\ Loaded) =>
       /\ status = "rendered"
       /\ Selection(mode, m, n) \in AllSelections
       /\ urlInfo = <<"?">> \o mode \o <<"_">> \o IntToStr(m)
                      \o <<"_">> \o IntToStr(n)

C10_Witness ==
  /\ viaLink
  /\ status = "rendered"
  /\ mode = LG /\ m = 9 /\ n = 0
====
